---- MODULE Spec2Model ----
(***************************************************************************)
(* influxdb_exporter, src/main.go: a one-shot translator from decoded      *)
(* InfluxDB points to Prometheus metric-family records.                    *)
(*                                                                         *)
(* Go strings are byte strings: they are modelled as sequences of bytes    *)
(* (0..255), so that the UTF-8 decoding done by `range` over a string and  *)
(* the byte indexing done by s[i] can differ, as they do in the code.      *)
(***************************************************************************)
EXTENDS Integers, Sequences, FiniteSets, TLC

\* ------------------------------------------------------------- bounds
\* Longest string handed to ReplaceInvalidChars by the sanitizer harness.
MaxLen == 3
\* Number of times the harness re-applies ReplaceInvalidChars.
MaxCalls == 2
\* Longest batch of decoded points.
MaxPoints == 2

\* ------------------------------------------------- program constants
LowerA == 97
LowerZ == 122
UpperA == 65
UpperZ == 90
Digit0 == 48
Digit9 == 57
Underscore == 95
\* strings.Join separator "."
Dot == 46
\* utf8.RuneError, the rune `range` yields for a byte that starts no valid
\* UTF-8 sequence
RuneError == 65533
\* os.Exit(1) in handleErr
ExitFatal == 1
\* exit status of a Go process that dies of an unrecovered panic
ExitPanic == 2

\* ------------------------------------------------------------ UTF-8
At(s, i) == IF i >= 1 /\ i <= Len(s) THEN s[i] ELSE -1

IsCont(b) == b >= 128 /\ b <= 191

\* What `for charIndex, char := range s` yields at byte position i (1-based):
\* the rune r and its width w in bytes. An invalid or truncated sequence
\* yields RuneError with width 1.
RuneAt(s, i) ==
  LET b0 == At(s, i)
      b1 == At(s, i + 1)
      b2 == At(s, i + 2)
      b3 == At(s, i + 3)
      lo == IF b0 = 224 THEN 160 ELSE IF b0 = 240 THEN 144 ELSE 128
      hi == IF b0 = 237 THEN 159 ELSE IF b0 = 244 THEN 143 ELSE 191
  IN  IF b0 < 128 THEN [r |-> b0, w |-> 1]
      ELSE IF b0 >= 194 /\ b0 <= 223 /\ IsCont(b1)
        THEN [r |-> (b0 - 192) * 64 + (b1 - 128), w |-> 2]
      ELSE IF b0 >= 224 /\ b0 <= 239 /\ b1 >= lo /\ b1 <= hi /\ IsCont(b2)
        THEN [r |-> (b0 - 224) * 4096 + (b1 - 128) * 64 + (b2 - 128), w |-> 3]
      ELSE IF b0 >= 240 /\ b0 <= 244 /\ b1 >= lo /\ b1 <= hi
              /\ IsCont(b2) /\ IsCont(b3)
        THEN [r |-> (b0 - 240) * 262144 + (b1 - 128) * 4096
                    + (b2 - 128) * 64 + (b3 - 128), w |-> 4]
      ELSE [r |-> RuneError, w |-> 1]

\* ------------------------------------------------- ReplaceInvalidChars
\* The condition of lines 138-141, negated: charInt is one of a-z A-Z 0-9 _
ValidChar(charInt) ==
  \/ (charInt >= LowerA /\ charInt <= LowerZ)
  \/ (charInt >= UpperA /\ charInt <= UpperZ)
  \/ (charInt >= Digit0 /\ charInt <= Digit9)
  \/ charInt = Underscore

\* Line 143: *in = (*in)[:charIndex] + "_" + (*in)[charIndex+1:]
\* (i is the 1-based position of byte charIndex).
ReplaceByte(cur, i) ==
  SubSeq(cur, 1, i - 1) \o <<Underscore>> \o SubSeq(cur, i + 1, Len(cur))

\* The loop of lines 136-145. `range *in` evaluates *in once: the runes and
\* their indices come from the original string orig, while the assignments
\* go to the current value cur of *in.
RECURSIVE ReplaceLoop(_, _, _)
ReplaceLoop(orig, cur, i) ==
  IF i > Len(orig) THEN cur
  ELSE LET d == RuneAt(orig, i)
       IN  ReplaceLoop(orig,
                       IF ValidChar(d.r) THEN cur ELSE ReplaceByte(cur, i),
                       i + d.w)

\* Lines 146-149: the first byte is read without a length check, so an
\* empty string panics (index out of range).
ReplaceInvalidChars(s) ==
  LET cur == ReplaceLoop(s, s, 1)
  IN  IF Len(cur) = 0 THEN [panicked |-> TRUE, val |-> cur]
      ELSE IF cur[1] >= Digit0 /\ cur[1] <= Digit9
        THEN [panicked |-> FALSE, val |-> <<Underscore>> \o cur]
      ELSE [panicked |-> FALSE, val |-> cur]

\* ------------------------------------------------------ string literals
\* "value", the field name compared at line 69
ValueField == <<118, 97, 108, 117, 101>>
\* "__name__", the tag key compared at line 84
NameLabel == <<95, 95, 110, 97, 109, 101, 95, 95>>
\* "__", the prefix client_golang reserves for its own label names
ReservedPrefix == <<95, 95>>

\* ---------------------------------------------------- sort and join
\* Go's string comparison s < t: byte-wise lexicographic.
RECURSIVE StrLess(_, _)
StrLess(a, b) ==
  IF Len(b) = 0 THEN FALSE
  ELSE IF Len(a) = 0 THEN TRUE
  ELSE IF a[1] < b[1] THEN TRUE
  ELSE IF a[1] > b[1] THEN FALSE
  ELSE StrLess(Tail(a), Tail(b))

\* sort.Strings over the label names collected at lines 92-96.
RECURSIVE SortStrings(_)
SortStrings(S) ==
  IF S = {} THEN <<>>
  ELSE LET m == CHOOSE x \in S : \A y \in S \ {x} : StrLess(x, y)
       IN  <<m>> \o SortStrings(S \ {m})

\* strings.Join(parts, ".")
RECURSIVE Join(_)
Join(parts) ==
  IF Len(parts) = 0 THEN <<>>
  ELSE IF Len(parts) = 1 THEN parts[1]
  ELSE parts[1] \o <<Dot>> \o Join(Tail(parts))

\* ------------------------------------------------------- the sample
\* Labels: map[string]string{} of line 80.
EmptyLabels == [k \in {} |-> <<>>]

\* Mutant of SetLabel: an entry already stored under key is kept.
SetLabelKeepFirst(labels, key, value) ==
  [k \in DOMAIN labels \cup {key} |->
     IF k \in DOMAIN labels THEN labels[k] ELSE value]

\* sample.Labels[key] = string(v.Value), line 88: a map assignment, which
\* overwrites an entry already stored under key.
SetLabel(labels, key, value) ==
  [k \in DOMAIN labels \cup {key} |-> IF k = key THEN value ELSE labels[k]]

\* The tag loop of lines 82-89, from tag i on. A key equal to "__name__" is
\* skipped before it is sanitized; every other key is sanitized, then stored.
RECURSIVE BuildLabels(_, _, _)
BuildLabels(tags, i, labels) ==
  IF i > Len(tags) THEN [panicked |-> FALSE, labels |-> labels]
  ELSE LET key == tags[i].Key
       IN  IF key = NameLabel THEN BuildLabels(tags, i + 1, labels)
           ELSE LET r == ReplaceInvalidChars(key)
                IN  IF r.panicked
                      THEN [panicked |-> TRUE, labels |-> labels]
                      ELSE BuildLabels(tags, i + 1,
                                       SetLabel(labels, r.val, tags[i].Value))

\* Lines 97-101: name, then key and value for each sorted label name.
RECURSIVE IDParts(_, _)
IDParts(labelnames, labels) ==
  IF Len(labelnames) = 0 THEN <<>>
  ELSE <<labelnames[1], labels[labelnames[1]]>>
       \o IDParts(Tail(labelnames), labels)

\* Lines 91-102: sample.ID
SampleID(name, labels) ==
  Join(<<name>> \o IDParts(SortStrings(DOMAIN labels), labels))

\* The type switch of lines 52-66 on a field value. Values are integers small
\* enough for float64(v) to be exact.
Coerce(v) ==
  IF v.type = "float64" THEN [ok |-> TRUE, value |-> v.f]
  ELSE IF v.type = "int64" THEN [ok |-> TRUE, value |-> v.i]
  ELSE IF v.type = "bool"
    THEN [ok |-> TRUE, value |-> IF v.b THEN 1 ELSE 0]
  ELSE [ok |-> FALSE, value |-> 0]

\* Lines 68-73: the metric name before sanitizing.
RawName(measurement, field) ==
  IF field = ValueField THEN measurement
  ELSE measurement \o <<Underscore>> \o field

\* ------------------------------------- prometheus.MustNewConstMetric
\* Lines 114-118 build the metric with MustNewConstMetric over NewDesc, which
\* panics when the descriptor is invalid: a metric name outside
\* [a-zA-Z_:][a-zA-Z0-9_:]*, a label name outside [a-zA-Z_][a-zA-Z0-9_]* or
\* starting with the reserved "__", or a name or label value that is not
\* valid UTF-8.
IsLetter(b) ==
  (b >= LowerA /\ b <= LowerZ) \/ (b >= UpperA /\ b <= UpperZ) \/ b = Underscore

ValidLabelName(l) ==
  /\ Len(l) > 0
  /\ IsLetter(l[1])
  /\ \A i \in 1..Len(l) : ValidChar(l[i])
  /\ ~(Len(l) >= 2 /\ SubSeq(l, 1, 2) = ReservedPrefix)

ValidMetricName(n) ==
  /\ Len(n) > 0
  /\ (IsLetter(n[1]) \/ n[1] = 58)
  /\ \A i \in 1..Len(n) : (ValidChar(n[i]) \/ n[i] = 58)

RECURSIVE ValidUTF8From(_, _)
ValidUTF8From(s, i) ==
  IF i > Len(s) THEN TRUE
  ELSE LET d == RuneAt(s, i)
       IN  IF d.r = RuneError /\ d.w = 1 THEN FALSE
           ELSE ValidUTF8From(s, i + d.w)

DescInvalid(smp) ==
  \/ ~ValidMetricName(smp.Name)
  \/ \E l \in DOMAIN smp.Labels : ~ValidLabelName(l)
  \/ \E l \in DOMAIN smp.Labels : ~ValidUTF8From(smp.Labels[l], 1)

\* -------------------------------------------------- decoded points
\* A models.Point as the code reads it: Name(), Tags() (ordered by key, keys
\* unique, as the line-protocol parser returns them), Fields() or its error,
\* Time(). A field value carries its dynamic type; only the component of
\* that type is meaningful.
FloatV(x) == [type |-> "float64", f |-> x, i |-> 0, b |-> FALSE]
IntV(x) == [type |-> "int64", f |-> 0, i |-> x, b |-> FALSE]
BoolV(x) == [type |-> "bool", f |-> 0, i |-> 0, b |-> x]
StringV == [type |-> "string", f |-> 0, i |-> 0, b |-> FALSE]

Tag(k, v) == [Key |-> k, Value |-> v]

Point(name, tags, fields, fieldsErr, time) ==
  [name |-> name, tags |-> tags, fields |-> fields,
   fieldsErr |-> fieldsErr, time |-> time]

\* cpu,host=a value=1
PCpuValue ==
  Point(<<99, 112, 117>>, <<Tag(<<104, 111, 115, 116>>, <<97>>)>>,
        ValueField :> FloatV(1), FALSE, 1)
\* cpu,host=a usage=42i,idle=true
PCpuUsage ==
  Point(<<99, 112, 117>>, <<Tag(<<104, 111, 115, 116>>, <<97>>)>>,
        (<<117, 115, 97, 103, 101>> :> IntV(42))
          @@ (<<105, 100, 108, 101>> :> BoolV(TRUE)), FALSE, 1)
\* cpu,host=a with a field set that cannot be unmarshalled
PBroken ==
  Point(<<99, 112, 117>>, <<Tag(<<104, 111, 115, 116>>, <<97>>)>>,
        ValueField :> FloatV(1), TRUE, 2)
\* 9cpu value=1,msg="..."
PDigit ==
  Point(<<57, 99, 112, 117>>, <<>>,
        (ValueField :> FloatV(1)) @@ (<<109, 115, 103>> :> StringV), FALSE, 2)
\* m,a=x.b.y,b=z value=1
PDotA ==
  Point(<<109>>, <<Tag(<<97>>, <<120, 46, 98, 46, 121>>), Tag(<<98>>, <<122>>)>>,
        ValueField :> FloatV(1), FALSE, 3)
\* m,a=x,b=y.b.z value=1
PDotB ==
  Point(<<109>>, <<Tag(<<97>>, <<120>>), Tag(<<98>>, <<121, 46, 98, 46, 122>>)>>,
        ValueField :> FloatV(1), FALSE, 3)
\* m,__name__=z,a-b=x,a.b=y value=0
PCollide ==
  Point(<<109>>,
        <<Tag(NameLabel, <<122>>), Tag(<<97, 45, 98>>, <<120>>),
          Tag(<<97, 46, 98>>, <<121>>)>>,
        ValueField :> BoolV(FALSE), FALSE, 4)
\* m,-_name__=z value=1
PReserved ==
  Point(<<109>>, <<Tag(<<45, 95, 110, 97, 109, 101, 95, 95>>, <<122>>)>>,
        ValueField :> FloatV(1), FALSE, 4)

PointPool ==
  {PCpuValue, PCpuUsage, PBroken, PDigit, PDotA, PDotB, PCollide, PReserved}

Batches == UNION {[1..n -> PointPool] : n \in 1..MaxPoints}

\* Inputs of the sanitizer harness: every byte string up to MaxLen over
\* a, 9, _, -, and the bytes of two multi-byte characters (C3 A9, E2 82 82).
HarnessBytes == {97, 57, 95, 45, 195, 169, 226, 130}

HarnessStrings == UNION {[1..n -> HarnessBytes] : n \in 0..MaxLen}

\* ------------------------------------------------------------ state
VARIABLES
  points,        \* main: the decoded points handed to parsePointsToSample
  pc,            \* where the process is: "main", "points" (outer loop of
                 \* line 44), "fields" (inner loop of line 51), "done",
                 \* "exited" (os.Exit(1)), "panicked"
  pi,            \* index of the current point of the outer loop
  todo,          \* field names of the current point not yet ranged over
  sample,        \* the influxDBSample built last (lines 76-102)
  from,          \* the point index and field the last sample was built from
  out,           \* os.Stdout: the metric families encoded so far, each with
                 \* the point index and field it came from
  exitCode,      \* the process exit status
  logged,        \* number of level.Error lines logged (line 47)
  writeFailed,   \* metric.Write has returned an error (line 120)
  encodeErrs,    \* the samples (point index, field) whose enc.Encode
                 \* returned an error, which line 128 discards
  str,           \* harness: the string *in handed to ReplaceInvalidChars
  prev,          \* harness: the value of *in before the last call
  calls,         \* harness: number of calls made
  crashed        \* harness: the last call panicked

vars ==
  <<points, pc, pi, todo, sample, from, out, exitCode, logged, writeFailed,
    encodeErrs, str, prev, calls, crashed>>

pipeVars ==
  <<points, pc, pi, todo, sample, from, out, exitCode, logged, writeFailed,
    encodeErrs>>

harnessVars == <<str, prev, calls, crashed>>

NoSample ==
  [ID |-> <<>>, Name |-> <<>>, Labels |-> EmptyLabels, Value |-> 0,
   Timestamp |-> 0]

NoOrigin == [pt |-> 0, field |-> <<>>]

\* ------------------------------------------------- the metric family
\* Lines 104-123: the MetricFamily wrapping one sample.
MetricFamily(smp) ==
  [Name |-> smp.Name, Help |-> "InfluxDB Metric", Type |-> "untyped",
   Labels |-> smp.Labels, Value |-> smp.Value, Timestamp |-> smp.Timestamp]

\* Mutant of Emit: the record is put in front of what was written before.
EmitFront(o, rec) == <<rec>> \o o

\* Lines 125-128: a fresh encoder over os.Stdout writes the family at once,
\* after everything written before.
Emit(o, rec) == Append(o, rec)

\* The possible results of metric.Write (line 120) and enc.Encode (line 128).
Outcomes == {"ok", "writeErr", "encodeErr"}

\* ---------------------------------------------------------- actions
\* handleErr, lines 154-157: print the error, os.Exit(1).
handleErr ==
  /\ pc' = "exited"
  /\ exitCode' = ExitFatal

\* An unrecovered panic ends the process with status 2.
Panic ==
  /\ pc' = "panicked"
  /\ exitCode' = ExitPanic

\* main, lines 164-182: open, read, parse; each failure goes to handleErr.
\* Without an argument os.Args[1] is out of range and the process panics.
Main ==
  /\ pc = "main"
  /\ \E res \in {"noArg", "openErr", "readErr", "parseErr", "ok"} :
       IF res = "ok"
         THEN /\ pc' = "points"
              /\ UNCHANGED exitCode
       ELSE IF res = "noArg" THEN Panic
       ELSE handleErr
  /\ UNCHANGED <<points, pi, todo, sample, from, out, logged, writeFailed,
                 encodeErrs, harnessVars>>

\* Mutant of FieldsErrorLogAndContinue: the error is treated as fatal.
FieldsErrorAbort ==
  /\ logged' = logged + 1
  /\ handleErr
  /\ UNCHANGED <<pi, todo>>

\* Lines 46-49: Fields() failed: log and continue with the next point.
FieldsErrorLogAndContinue ==
  /\ logged' = logged + 1
  /\ pi' = pi + 1
  /\ UNCHANGED <<pc, todo, exitCode>>

\* Lines 44-51: take the next point and get its fields.
PointStep ==
  /\ pc = "points"
  /\ pi <= Len(points)
  /\ IF points[pi].fieldsErr
       THEN FieldsErrorLogAndContinue
       ELSE /\ todo' = DOMAIN points[pi].fields
            /\ pc' = IF DOMAIN points[pi].fields = {} THEN "points" ELSE "fields"
            /\ pi' = IF DOMAIN points[pi].fields = {} THEN pi + 1 ELSE pi
            /\ UNCHANGED <<logged, exitCode>>
  /\ UNCHANGED <<points, sample, from, out, writeFailed, encodeErrs,
                 harnessVars>>

\* The end of one iteration of the inner loop: on to the next field, or,
\* after the last one, to the next point.
Continue(rest) ==
  /\ todo' = rest
  /\ pc' = IF rest = {} THEN "points" ELSE "fields"
  /\ pi' = IF rest = {} THEN pi + 1 ELSE pi
  /\ UNCHANGED exitCode

\* Lines 51-129: one iteration of the inner loop, for any field not yet
\* visited (a Go map is ranged over in no fixed order).
FieldStep ==
  /\ pc = "fields"
  /\ \E field \in todo, res \in Outcomes :
       LET s == points[pi]
           c == Coerce(s.fields[field])
           n == ReplaceInvalidChars(RawName(s.name, field))
           lb == BuildLabels(s.tags, 1, EmptyLabels)
           smp == [ID |-> IF lb.panicked THEN <<>>
                          ELSE SampleID(n.val, lb.labels),
                   Name |-> n.val,
                   Labels |-> lb.labels, Value |-> c.value,
                   Timestamp |-> s.time]
           rec == [pt |-> pi, field |-> field, mf |-> MetricFamily(smp)]
       IN  IF ~c.ok
             THEN /\ Continue(todo \ {field})
                  /\ UNCHANGED <<sample, from, out, writeFailed, encodeErrs>>
           ELSE IF n.panicked
             THEN /\ Panic
                  /\ UNCHANGED <<pi, todo, sample, from, out, writeFailed,
                                 encodeErrs>>
           ELSE /\ sample' = smp
                /\ from' = [pt |-> pi, field |-> field]
                /\ IF lb.panicked \/ DescInvalid(smp)
                     THEN /\ Panic
                          /\ UNCHANGED <<pi, todo, out, writeFailed,
                                         encodeErrs>>
                   ELSE IF res = "writeErr"
                     THEN /\ handleErr
                          /\ writeFailed' = TRUE
                          /\ UNCHANGED <<pi, todo, out, encodeErrs>>
                   ELSE IF res = "encodeErr"
                     THEN /\ Continue(todo \ {field})
                          /\ encodeErrs' = encodeErrs \cup {[pt |-> pi, field |-> field]}
                          /\ UNCHANGED <<out, writeFailed>>
                   ELSE /\ Continue(todo \ {field})
                        /\ out' = Emit(out, rec)
                        /\ UNCHANGED <<writeFailed, encodeErrs>>
  /\ UNCHANGED <<points, logged, harnessVars>>

\* Line 130-131 and 182: the outer loop is over; main returns, status 0.
Return ==
  /\ pc = "points"
  /\ pi > Len(points)
  /\ pc' = "done"
  /\ UNCHANGED <<points, pi, todo, sample, from, out, exitCode, logged,
                 writeFailed, encodeErrs, harnessVars>>

\* Harness: one call ReplaceInvalidChars(&str).
Call ==
  /\ pc = "harness"
  /\ calls < MaxCalls
  /\ ~crashed
  /\ LET r == ReplaceInvalidChars(str)
     IN  /\ str' = r.val
         /\ crashed' = r.panicked
  /\ prev' = str
  /\ calls' = calls + 1
  /\ UNCHANGED pipeVars

\* -------------------------------------------------- specifications
PipeRest ==
  /\ pi = 1
  /\ todo = {}
  /\ sample = NoSample
  /\ from = NoOrigin
  /\ out = <<>>
  /\ exitCode = 0
  /\ logged = 0
  /\ writeFailed = FALSE
  /\ encodeErrs = {}

HarnessRest ==
  /\ str = <<>>
  /\ prev = <<>>
  /\ calls = 0
  /\ crashed = FALSE

\* The exporter run on any batch of decoded points.
Init ==
  /\ points \in Batches
  /\ pc = "main"
  /\ PipeRest
  /\ HarnessRest

Next == Main \/ PointStep \/ FieldStep \/ Return

Spec == Init /\ [][Next]_vars

\* ReplaceInvalidChars applied, and re-applied, to any bounded byte string.
InitSanitize ==
  /\ str \in HarnessStrings
  /\ prev = str
  /\ calls = 0
  /\ crashed = FALSE
  /\ points = <<>>
  /\ pc = "harness"
  /\ PipeRest

NextSanitize == Call

SpecSanitize == InitSanitize /\ [][NextSanitize]_vars

\* ------------------------------------------------------------ claims
\* The records of out that came from field f of point i.
RecordsOf(i, f) == {k \in 1..Len(out) : out[k].pt = i /\ out[k].field = f}

\* The fields of a point that line 53's type switch turns into a value.
NumericFields(p) ==
  IF p.fieldsErr THEN {}
  ELSE {f \in DOMAIN p.fields : p.fields[f].type \in {"float64", "int64", "bool"}}

RECURSIVE NumericPairs(_)
NumericPairs(ps) ==
  IF Len(ps) = 0 THEN 0
  ELSE Cardinality(NumericFields(Head(ps))) + NumericPairs(Tail(ps))

\* C1 (as claimed): after a call that returns, the string holds only
\* characters of a-z, A-Z, 0-9, _.
C1_OnlyValidChars ==
  (pc = "harness" /\ calls >= 1 /\ ~crashed)
    => \A i \in 1..Len(str) : ValidChar(str[i])

\* C2 (as claimed): ReplaceInvalidChars is idempotent: a second call on the
\* output of the first leaves it unchanged.
C2_Idempotent ==
  (pc = "harness" /\ calls = 2) => (~crashed /\ str = prev)

\* C8 (as claimed): called on the empty string, ReplaceInvalidChars returns
\* normally and the string is still empty.
C8_EmptyUnchanged ==
  (pc = "harness" /\ calls >= 1 /\ prev = <<>>) => (~crashed /\ str = <<>>)

\* C3 (as claimed): the label set of a sample built by parsePointsToSample
\* never holds the key "__name__".
C3_NoNameLabel == NameLabel \notin DOMAIN sample.Labels

\* C4 (as claimed): two samples with the same metric name and different
\* label sets have different identity strings.
C4_IDDistinguishes ==
  \A k, l \in 1..Len(out) :
    (out[k].mf.Name = out[l].mf.Name /\ out[k].mf.Labels # out[l].mf.Labels)
      => SampleID(out[k].mf.Name, out[k].mf.Labels)
           # SampleID(out[l].mf.Name, out[l].mf.Labels)

\* C5 (as claimed): a failure of metric.Write or of enc.Encode is fatal: the
\* process has exited with status 1 (so no later sample is emitted).
C5_SerializationFailureFatal ==
  (writeFailed \/ encodeErrs # {}) => (pc = "exited" /\ exitCode = ExitFatal)

\* C9 (as claimed): a run that ends with status 0 has emitted exactly one
\* record for each float64, int64 or bool field of each point whose fields
\* can be retrieved, none for any other field, and so as many records as
\* there are such (point, field) pairs.
C9_OneRecordPerNumericField ==
  (pc = "done" /\ exitCode = 0) =>
    /\ \A i \in 1..Len(points) : \A f \in DOMAIN points[i].fields :
         Cardinality(RecordsOf(i, f))
           = IF f \in NumericFields(points[i]) THEN 1 ELSE 0
    /\ Len(out) = NumericPairs(points)

\* C6: a point whose Fields() fails is logged and skipped: the step leaves
\* the output and the exit status alone and moves on to the next point; no
\* record ever comes from such a point; and a run that reaches the end has
\* status 0 and has handed to the encoder, exactly once, each numeric field
\* of every other point (the record is in the output, or its Encode error is
\* among the discarded ones), each record being the family of that point
\* and field alone.
C6_FailingPointSkipped ==
  /\ [](\A k \in 1..Len(out) : ~points[out[k].pt].fieldsErr)
  /\ [](pc = "done" =>
          /\ exitCode = 0
          /\ pi = Len(points) + 1
          /\ \A i \in 1..Len(points) : \A f \in DOMAIN points[i].fields :
               /\ Cardinality(RecordsOf(i, f))
                    + (IF [pt |-> i, field |-> f] \in encodeErrs THEN 1 ELSE 0)
                    = IF f \in NumericFields(points[i]) THEN 1 ELSE 0
               /\ \A k \in RecordsOf(i, f) :
                    LET n == ReplaceInvalidChars(RawName(points[i].name, f)).val
                    IN  /\ out[k].mf.Name = n
                        /\ out[k].mf.Timestamp = points[i].time
                        /\ out[k].mf.Value = Coerce(points[i].fields[f]).value
                        /\ out[k].mf.Labels
                             = BuildLabels(points[i].tags, 1, EmptyLabels).labels)
  /\ [][(pc = "points" /\ pi <= Len(points) /\ points[pi].fieldsErr)
          => /\ out' = out
             /\ exitCode' = exitCode
             /\ encodeErrs' = encodeErrs
             /\ logged' = logged + 1
             /\ pc' = "points"
             /\ pi' = pi + 1]_vars

\* C6 witness: a run over a batch whose first point fails Fields() has
\* logged it, gone on, emitted a record of the second point and ended.
C6_Witness ==
  /\ pc = "done"
  /\ Len(points) = 2
  /\ points[1].fieldsErr
  /\ logged = 1
  /\ \E k \in 1..Len(out) : out[k].pt = 2

\* C7: records are written in decoded point order and at once: the output
\* is ordered by point index; a step changes the output only by appending
\* the record of the sample built in that very step; and a step that builds
\* a sample, and in which neither metric.Write nor enc.Encode fails nor the
\* process panics, appends its record before any other step is taken. The
\* steps that end the process leave the output as it is.
C7_InOrderImmediate ==
  /\ [](\A k, l \in 1..Len(out) : k < l => out[k].pt <= out[l].pt)
  /\ [][/\ out' # out =>
             /\ from' # from
             /\ out' = Append(out, [pt |-> from'.pt, field |-> from'.field,
                                    mf |-> MetricFamily(sample')])
        /\ (from' # from /\ pc' \notin {"exited", "panicked"}
              /\ encodeErrs' = encodeErrs) => Len(out') = Len(out) + 1
        /\ pc' \in {"exited", "panicked", "done"} => out' = out]_vars

\* C7 witness: records of point 1 and then of point 2 are in the output
\* when a fatal error ends the run.
C7_Witness ==
  /\ pc = "exited"
  /\ writeFailed
  /\ Len(out) >= 2
  /\ out[1].pt = 1
  /\ out[Len(out)].pt = 2

\* The tags of point p that line 84 lets through.
KeptTags(p) == {t \in 1..Len(p.tags) : p.tags[t].Key # NameLabel}

\* The last tag let through whose key sanitizes to label name l.
LastTagFor(p, l) ==
  CHOOSE t \in KeptTags(p) :
    /\ ReplaceInvalidChars(p.tags[t].Key).val = l
    /\ \A u \in KeptTags(p) :
         ReplaceInvalidChars(p.tags[u].Key).val = l => u <= t

\* C10: the label set of a sample has one entry for each sanitized key of
\* the point's tags other than "__name__", holding the value of the last
\* such tag in tag order; so it never has more entries than there are such
\* tags, and has fewer when two keys sanitize to the same name.
C10_LastTagWins ==
  (from.pt # 0 /\ \A t \in 1..Len(points[from.pt].tags) :
                    Len(points[from.pt].tags[t].Key) > 0) =>
    LET p == points[from.pt]
    IN  /\ DOMAIN sample.Labels
             = {ReplaceInvalidChars(p.tags[t].Key).val : t \in KeptTags(p)}
        /\ \A l \in DOMAIN sample.Labels :
             sample.Labels[l] = p.tags[LastTagFor(p, l)].Value
        /\ Cardinality(DOMAIN sample.Labels) <= Cardinality(KeptTags(p))

\* C10 witness: a sample built from a point with two tags of different raw
\* keys, the same sanitized key and different values: one entry, holding
\* the later value.
C10_Witness ==
  /\ from.pt # 0
  /\ LET p == points[from.pt]
     IN  \E t, u \in KeptTags(p) :
           /\ t < u
           /\ p.tags[t].Key # p.tags[u].Key
           /\ p.tags[t].Value # p.tags[u].Value
           /\ ReplaceInvalidChars(p.tags[t].Key).val
                = ReplaceInvalidChars(p.tags[u].Key).val
           /\ sample.Labels[ReplaceInvalidChars(p.tags[u].Key).val]
                = p.tags[u].Value
           /\ Cardinality(DOMAIN sample.Labels) < Cardinality(KeptTags(p))

====
